---- MODULE Spec2Model ----
(***************************************************************************)
(* postkasse: checkpointed JMAP -> object storage backup.                  *)
(*                                                                         *)
(*   Spec           message sync   (core/email.rs backup_emails)           *)
(*   SpecMailboxes  mailbox sync   (core/mailboxes.rs mailboxes)           *)
(*   SpecRestore    restore        (core/email.rs restore_emails,          *)
(*                                  core/helpers.rs sort_mailboxes)        *)
(*                                                                         *)
(* A remote message is identified by its rank in the server's              *)
(* receivedAt-ascending order; remote[i] is its receivedAt in seconds.     *)
(* A stored checkpoint is <<>> (no /progress/email.json) or <<seconds>>.   *)
(***************************************************************************)
EXTENDS Integers, Sequences, FiniteSets, TLC

\* ---------------------------------------------------------------- bounds
MaxEmails == 4

MaxTime == 3

MaxPage == 2

MaxRuns == 2

MaxFailures == 1

MaxMailboxes == 4

MaxRestore == 3

MaxMessages == 2

MaxDocs == 2

MaxIdLen == 4
\* emails of the page followed task by task
MaxTasks == 3
\* futures handed to one stream
MaxQueued == 52

\* ------------------------------------------------------- program constants
\* DateTime::<Utc>::default() and DateTime::UNIX_EPOCH, in seconds
UNIX_EPOCH == 0

\* search: limit.unwrap_or(100)
DefaultLimit == 100
\* backup_emails, line 56: buffer_unordered(50)
EmailConcurrency == 50
\* backup_emails, line 64: buffered(50)
BlobConcurrency == 50
\* core/mailboxes.rs line 28: buffer_unordered(50)
MailboxConcurrency == 50
\* core/email.rs lines 276 and 299: buffer_unordered(10)
RestoreConcurrency == 10

VARIABLES
    \* message sync
    remote,       \* remote messages: receivedAt by rank (ascending)
    maxObjects,   \* max_objects: the page limit
    indexing,     \* indexer.is_some()
    stored,       \* ids with an object under /emails/
    ckpt,         \* /progress/email.json: <<>> or <<lastProcessedDate>>
    pc,           \* position of backup_emails
    date,         \* backup_progress.last_processed_date
    total,        \* total
    pos,          \* pb.position()
    page,         \* emails_res
    result,       \* "" while running, "ok" or the error of the pass
    blobs,        \* blobs: per email of the page, backup_blob returned Ok
    added,        \* ids of the page with a document added to the indexer
    run,          \* number of passes started
    \* message sync: history.  What is recorded about a pass (startCkpt,
    \* startStored, wrote, prevEnd) is kept while no metadata write has failed
    \* and cleared by the first failed write.
    failed,       \* number of metadata writes that have failed
    committed,    \* value of the last successful checkpoint write
    lastWrite,    \* checkpoint value last written by the current pass
    pageCkpt,     \* checkpoint stored when the current page was requested
    startCkpt,    \* checkpoint stored when the current pass started
    startStored,  \* /emails/ objects when the current pass started
    wrote,        \* ids written by the current pass
    prevEnd,      \* how the previous pass ended: "ok", "killed before
                  \* checkpoint" or "other"
    failedNow,    \* ids whose metadata write failed in the current pass
    failedBefore, \* ids whose metadata write failed in the previous pass, when
                  \* that pass returned Ok and no write has failed since
    \* mailbox sync
    mremote,      \* number of remote mailboxes (ids 1..mremote)
    mstored,      \* ids with an object under /mailboxes/
    mpc,          \* position of mailboxes
    mtotal,       \* total
    mpos,         \* pb.position()
    mpage,        \* mailboxes_res
    mresult,      \* "" while running, "ok" or the error
    mfailed,      \* some mailbox write has failed
    mfetches,     \* number of pages fetched by the current pass
    mrun,         \* number of mailbox sync passes started
    mckpt,        \* /progress/mailboxes.json: <<>> or <<BackupProgress>>
    mprogress,    \* backup_progress of the checkpointed mailbox sync
    \* restore
    ids,          \* number of requested messages (ids 1..ids)
    onServer,     \* mailboxes_on_server
    referenced,   \* mailbox_ids_in_emails_to_restore
    parent,       \* loaded mailboxes: id -> parent id (0: none)
    toRestore,    \* mailbox_ids_to_restore
    mailboxes,    \* mailboxes_to_restore: the loaded mailboxes (ids), in Vec order
    rpc,          \* position of restore_emails
    sorted,       \* result of sort_mailboxes
    cycleNode,    \* node reported by the cycle error (0: none)
    created,      \* mailbox creations issued, in order
    assigned,     \* the id the server gave to each created mailbox (0: none)
    recreated,    \* messages created on the server
    loadFailed,   \* history: a read from storage has failed
    rresult,      \* "" while running, "ok" or the error
    \* search
    pending,      \* documents added to the IndexWriter and not committed
    index,        \* committed documents, by doc address
    squery,       \* query of the last search since the last write or commit
    top_docs,     \* doc addresses the searcher returned for it
    docs,         \* Vec<SearchResult> built from them
    sresult,      \* "off", "" before a search, "ok" or the error of the search
    \* storage paths
    site,         \* the code that derives the path: <<command, kind>>
    idA,          \* an identifier, as a sequence of characters
    idB,          \* another identifier of the same kind
    pathA,        \* <<>>, the path derived for idA or Panic
    pathB,        \* <<>>, the path derived for idB or Panic
    \* one page of message sync, task by task
    tlen,         \* emails_res.len(): the emails of the page are 1..tlen
    tindexing,    \* indexer.is_some()
    blob_ids,     \* email.blob_id() of each email of the page
    email_task,   \* backup_email futures: "new", "write", "ok" or "err"
    blob_task,    \* backup_blob futures: "new", "download", "write", "ok", "err"
    doc_task,     \* index_emails closures: "new", "added", "failed", "skipped"
    tblobs,       \* blobs: the outputs the payload stream has yielded, each
                  \* one as the task it is the output of
    tpc,          \* position of the loop body of backup_emails
    commits,      \* calls of indexer.commit() for the page
    tckpt,        \* the checkpoint of the page has been written
    tresult,      \* "" or the error returned by the pass
    \* one bounded stream of futures, by count
    stream,       \* the stream being driven, "off", "end" or "err"
    slen,         \* the number of futures its iterator holds at the start
    queued,       \* futures the stream has not polled yet
    in_flight     \* futures polled and not completed

emailVars == <<remote, maxObjects, indexing, stored, ckpt,
               pc, date, total, pos, page, result, run, failed,
               committed, lastWrite, pageCkpt, startCkpt, startStored, wrote,
               prevEnd, blobs, added, failedNow, failedBefore>>

mailboxVars == <<mremote, mstored, mpc, mtotal, mpos, mpage, mresult, mfailed,
                 mfetches, mrun, mckpt, mprogress>>

restoreVars == <<ids, onServer, referenced, parent, toRestore, mailboxes, rpc,
                 sorted, cycleNode, created, assigned, recreated, loadFailed,
                 rresult>>

searchVars == <<pending, index, squery, top_docs, docs, sresult>>

pathVars == <<site, idA, idB, pathA, pathB>>

taskVars == <<tlen, tindexing, blob_ids, email_task, blob_task, doc_task,
              tblobs, tpc, commits, tckpt, tresult>>

streamVars == <<stream, slen, queued, in_flight>>

vars == <<emailVars, mailboxVars, restoreVars, searchVars, pathVars, taskVars,
          streamVars>>

\* ------------------------------------------------------------- helpers
Min(a, b) == IF a < b THEN a ELSE b

Ids == 1..Len(remote)

\* Non-decreasing sequences of receive times, up to MaxEmails long.
Collections ==
    {s \in UNION {[1..n -> 1..MaxTime] : n \in 0..MaxEmails} :
        \A i \in 1..(Len(s) - 1) : s[i] <= s[i + 1]}

\* The elements of the sequence s.
Range(s) == {s[k] : k \in 1..Len(s)}

\* ---------------------------------------------------- remote protocol
\* email::query::Filter::after(d): receivedAt is the same as or after d.
After(t, d) == t >= d

Matching(d) == {i \in Ids : After(remote[i], d)}

\* Email/query with the filter, sorted by receivedAt ascending.
QueryEmail(d) ==
    LET S == Matching(d)
        Before(j, i) == remote[j] < remote[i] \/ (remote[j] = remote[i] /\ j < i)
    IN  [k \in 1..Cardinality(S) |->
            CHOOSE i \in S : Cardinality({j \in S : Before(j, i)}) = k - 1]

\* fetch_total_count: total of the filtered query.
fetch_total_count(d) == Cardinality(Matching(d))

\* fetch_email: the window [position, position + max_objects) of the query.
fetch_email(d, position, max_objects) ==
    LET q == QueryEmail(d)
    IN  SubSeq(q, position + 1, Min(position + max_objects, Len(q)))

\* ------------------------------------------------------ checkpoint store
\* read_backup_progress: epoch when absent, else the stored date minus 1s.
read_backup_progress(c) == IF c = <<>> THEN UNIX_EPOCH ELSE c[1] - 1

\* last_received: receivedAt of the last email of the page, if any.
last_received(p) == IF p = <<>> THEN <<>> ELSE <<remote[p[Len(p)]]>>

\* last_received.unwrap_or_default()
unwrap_or_default(o) == IF o = <<>> THEN UNIX_EPOCH ELSE o[1]

\* --------------------------------------------------------- message sync
EmailInit ==
    /\ remote \in Collections
    /\ indexing \in BOOLEAN
    /\ stored = {}
    /\ ckpt = <<>>
    /\ pc = "idle"
    /\ date = UNIX_EPOCH
    /\ total = 0
    /\ pos = 0
    /\ page = <<>>
    /\ result = ""
    /\ run = 0
    /\ failed = 0
    /\ committed = <<>>
    /\ lastWrite = <<>>
    /\ pageCkpt = <<>>
    /\ startCkpt = <<>>
    /\ startStored = {}
    /\ wrote = {}
    /\ prevEnd = "other"
    /\ blobs = <<>>
    /\ added = {}
    /\ failedNow = {}
    /\ failedBefore = {}

EmailIdle ==
    /\ remote = <<>>
    /\ indexing = FALSE
    /\ stored = {}
    /\ ckpt = <<>>
    /\ pc = "off"
    /\ date = UNIX_EPOCH
    /\ total = 0
    /\ pos = 0
    /\ page = <<>>
    /\ result = ""
    /\ run = 0
    /\ failed = 0
    /\ committed = <<>>
    /\ lastWrite = <<>>
    /\ pageCkpt = <<>>
    /\ startCkpt = <<>>
    /\ startStored = {}
    /\ wrote = {}
    /\ prevEnd = "other"
    /\ blobs = <<>>
    /\ added = {}
    /\ failedNow = {}
    /\ failedBefore = {}

storeVars == <<stored, ckpt, committed>>

passVars == <<run, startCkpt, startStored, prevEnd>>

configVars == <<remote, maxObjects, indexing>>

indexVars == <<blobs, added>>

retryVars == <<failedNow, failedBefore>>

\* The record v of a pass, or none once a metadata write has failed.
Keep(v, none) == IF failed' = 0 THEN v ELSE none

\* The pass returns Err(e).
Abort(e) ==
    /\ pc' = "done"
    /\ result' = e

\* backup_emails, lines 33-35: a new process reads the checkpoint.
ReadProgress ==
    /\ pc \in {"idle", "done"}
    /\ run < MaxRuns
    /\ run' = run + 1
    /\ UNCHANGED <<storeVars, configVars, failed>>
    /\ prevEnd' = IF pc = "idle" THEN prevEnd
                   ELSE IF result = "ok" THEN Keep("ok", "other") ELSE "other"
    /\ startCkpt' = Keep(ckpt, <<>>)
    /\ startStored' = Keep(stored, {})
    /\ wrote' = {}
    /\ lastWrite' = <<>>
    /\ pageCkpt' = ckpt
    /\ blobs' = <<>>
    /\ added' = {}
    /\ failedNow' = {}
    /\ failedBefore' = IF pc = "done" /\ result = "ok" THEN failedNow ELSE {}
    /\ total' = 0
    /\ pos' = 0
    /\ page' = <<>>
    /\ \/ /\ date' = read_backup_progress(ckpt)
          /\ pc' = "total"
          /\ result' = ""
       \/ /\ date' = UNIX_EPOCH
          /\ Abort("Error reading backup progress")

\* backup_emails, lines 37-41.
FetchTotal ==
    /\ pc = "total"
    /\ \/ /\ total' = fetch_total_count(date)
          /\ pc' = "fetch"
          /\ UNCHANGED result
       \/ /\ Abort("Error fetching total count")
          /\ UNCHANGED total
    /\ UNCHANGED <<storeVars, configVars, passVars, date, pos, page, failed,
                   lastWrite, pageCkpt, wrote, indexVars, retryVars>>

\* backup_emails, lines 44-53.
FetchPage ==
    /\ pc = "fetch"
    /\ pageCkpt' = ckpt
    /\ \/ /\ page' = fetch_email(date, pos, maxObjects)
          /\ pc' = "emails"
          /\ UNCHANGED result
       \/ /\ Abort("Error fetching emails")
          /\ UNCHANGED page
    /\ UNCHANGED <<storeVars, configVars, passVars, date, total, pos, failed,
                   lastWrite, wrote, indexVars, retryVars>>

\* BackupEmails with the error of a failed write returned by the pass.
BackupEmailsPropagates ==
    /\ pc = "emails"
    /\ \E ok \in SUBSET Range(page) :
          /\ failed' = failed + Cardinality(Range(page) \ ok)
          /\ failed' <= MaxFailures
          /\ stored' = stored \cup ok
          /\ wrote' = Keep(wrote \cup ok, {})
          /\ failedNow' = failedNow \cup (Range(page) \ ok)
          /\ failedBefore' = IF ok = Range(page) THEN failedBefore ELSE {}
          /\ IF ok = Range(page)
                THEN pc' = "blobs" /\ UNCHANGED result
                ELSE Abort("Error writing email")
    /\ startCkpt' = Keep(startCkpt, <<>>)
    /\ startStored' = Keep(startStored, {})
    /\ prevEnd' = Keep(prevEnd, "other")
    /\ UNCHANGED <<ckpt, committed, configVars, run, date, total, pos,
                   page, lastWrite, pageCkpt, indexVars>>

\* backup_emails, lines 55-58: backup_email of every email of the page;
\* ok are the emails whose write succeeds, the other errors are dropped.
BackupEmails ==
    /\ pc = "emails"
    /\ \E ok \in SUBSET Range(page) :
          /\ failed' = failed + Cardinality(Range(page) \ ok)
          /\ failed' <= MaxFailures
          /\ stored' = stored \cup ok
          /\ wrote' = Keep(wrote \cup ok, {})
          /\ failedNow' = failedNow \cup (Range(page) \ ok)
          /\ failedBefore' = IF ok = Range(page) THEN failedBefore ELSE {}
    /\ startCkpt' = Keep(startCkpt, <<>>)
    /\ startStored' = Keep(startStored, {})
    /\ prevEnd' = Keep(prevEnd, "other")
    /\ pc' = "blobs"
    /\ UNCHANGED <<ckpt, committed, configVars, run, date, total, pos,
                   page, result, lastWrite, pageCkpt, indexVars>>

\* backup_emails, lines 60-66: backup_blob of every email of the page, the
\* results collected in the order of the page.  blobs[k] is TRUE when the
\* download and the write of the payload of page[k] both succeeded
\* (backup_blob, lines 131-143, returns Err for either failure).
BackupBlobs ==
    /\ pc = "blobs"
    /\ blobs' \in [1..Len(page) -> BOOLEAN]
    /\ pc' = IF indexing THEN "index" ELSE "progress"
    /\ UNCHANGED <<storeVars, configVars, passVars, date, total, pos, page,
                   result, failed, lastWrite, pageCkpt, wrote, added,
                   retryVars>>

\* index_emails, lines 107-118: the emails zipped with the payload results;
\* write_document is mapped over the Ok payloads only, an Err is passed over.
index_emails(emails_res, bs) ==
    {emails_res[k] : k \in {j \in 1..Len(emails_res) : bs[j]}}

\* IndexEmails with the checkpoint of the page written before the commit.
IndexEmailsAfterCheckpoint ==
    /\ pc = "index"
    /\ added' = index_emails(page, blobs)
    /\ blobs' = <<>>
    /\ \/ /\ pc' = "progress"
          /\ UNCHANGED <<result, ckpt, committed>>
       \/ /\ Abort("Error committing indexer")
          /\ ckpt' = <<unwrap_or_default(last_received(page))>>
          /\ committed' = ckpt'
    /\ UNCHANGED <<stored, configVars, passVars, date, total, pos, page,
                   failed, lastWrite, pageCkpt, wrote, retryVars>>

\* backup_emails, lines 78-81: index_emails adds the documents, then commits;
\* emails_res and blobs are moved into the call.
IndexEmails ==
    /\ pc = "index"
    /\ added' = index_emails(page, blobs)
    /\ blobs' = <<>>
    /\ \/ /\ pc' = "progress"
          /\ UNCHANGED result
       \/ Abort("Error committing indexer")
    /\ UNCHANGED <<storeVars, configVars, passVars, date, total, pos, page,
                   failed, lastWrite, pageCkpt, wrote, retryVars>>

\* WriteProgress with the cursor left where it is after an empty page.
WriteProgressKeepsDate ==
    /\ pc = "progress"
    /\ date' = IF page = <<>> THEN date ELSE unwrap_or_default(last_received(page))
    /\ \/ /\ ckpt' = <<date'>>
          /\ committed' = <<date'>>
          /\ lastWrite' = <<date'>>
          /\ pos' = pos + Len(page)
          /\ IF pos' >= total
                THEN pc' = "done" /\ result' = "ok"
                ELSE pc' = "fetch" /\ UNCHANGED result
       \/ /\ Abort("Error writing backup progress")
          /\ UNCHANGED <<ckpt, committed, lastWrite, pos>>
    /\ blobs' = <<>>
    /\ added' = {}
    /\ UNCHANGED <<stored, configVars, passVars, total, page, failed, pageCkpt,
                   wrote, retryVars>>

\* WriteProgress with the error of the checkpoint write dropped.
WriteProgressIgnoresError ==
    /\ pc = "progress"
    /\ date' = unwrap_or_default(last_received(page))
    /\ \/ /\ ckpt' = <<date'>>
          /\ committed' = <<date'>>
          /\ lastWrite' = <<date'>>
       \/ UNCHANGED <<ckpt, committed, lastWrite>>
    /\ pos' = pos + Len(page)
    /\ IF pos' >= total
          THEN pc' = "done" /\ result' = "ok"
          ELSE pc' = "fetch" /\ UNCHANGED result
    /\ blobs' = <<>>
    /\ added' = {}
    /\ UNCHANGED <<stored, configVars, passVars, total, page, failed, pageCkpt,
                   wrote, retryVars>>

\* WriteProgress with the position advanced by the number of indexed documents.
WriteProgressCountsIndexed ==
    /\ pc = "progress"
    /\ date' = unwrap_or_default(last_received(page))
    /\ \/ /\ ckpt' = <<date'>>
          /\ committed' = <<date'>>
          /\ lastWrite' = <<date'>>
          /\ pos' = pos + (IF indexing THEN Cardinality(added) ELSE Len(page))
          /\ IF pos' >= total
                THEN pc' = "done" /\ result' = "ok"
                ELSE pc' = "fetch" /\ UNCHANGED result
       \/ /\ Abort("Error writing backup progress")
          /\ UNCHANGED <<ckpt, committed, lastWrite, pos>>
    /\ blobs' = <<>>
    /\ added' = {}
    /\ UNCHANGED <<stored, configVars, passVars, total, page, failed, pageCkpt,
                   wrote, retryVars>>

\* backup_emails, lines 83-96: the checkpoint write, pb.inc and the loop test.
WriteProgress ==
    /\ pc = "progress"
    /\ date' = unwrap_or_default(last_received(page))
    /\ \/ /\ ckpt' = <<date'>>
          /\ committed' = <<date'>>
          /\ lastWrite' = <<date'>>
          /\ pos' = pos + Len(page)
          /\ IF pos' >= total
                THEN pc' = "done" /\ result' = "ok"
                ELSE pc' = "fetch" /\ UNCHANGED result
       \/ /\ Abort("Error writing backup progress")
          /\ UNCHANGED <<ckpt, committed, lastWrite, pos>>
    /\ blobs' = <<>>
    /\ added' = {}
    /\ UNCHANGED <<stored, configVars, passVars, total, page, failed, pageCkpt,
                   wrote, retryVars>>

\* The process is killed at an await point of the pass; its memory is lost.
Kill ==
    /\ pc \in {"total", "fetch", "emails", "blobs", "index", "progress"}
    /\ prevEnd' = IF pc \in {"blobs", "index", "progress"} /\ page # <<>>
                     THEN "killed before checkpoint" ELSE "other"
    /\ pc' = "idle"
    /\ date' = UNIX_EPOCH
    /\ total' = 0
    /\ pos' = 0
    /\ page' = <<>>
    /\ lastWrite' = <<>>
    /\ pageCkpt' = <<>>
    /\ startCkpt' = <<>>
    /\ startStored' = {}
    /\ wrote' = {}
    /\ blobs' = <<>>
    /\ added' = {}
    /\ failedNow' = {}
    /\ failedBefore' = {}
    /\ UNCHANGED <<storeVars, configVars, run, result, failed>>

EmailNext ==
    \/ ReadProgress
    \/ FetchTotal
    \/ FetchPage
    \/ BackupEmails
    \/ BackupBlobs
    \/ IndexEmails
    \/ WriteProgress
    \/ Kill

\* --------------------------------------------------------- mailbox sync
MIds == 1..mremote

\* jmap::fetch_mailboxes: the window [position, position + max_objects) of
\* Mailbox/query (server order).
fetch_mailboxes(position, max_objects) ==
    [k \in 1..(Min(position + max_objects, mremote) - Min(position, mremote)) |->
        position + k]

\* The position that mailboxes passes to fetch_mailboxes (line 19).
MailboxCursor(position) == 0

\* backup/progress.rs, lines 21-24: the BackupProgress of a missing object.
NoProgress == [position |-> 0, items |-> <<>>]

MailboxInit ==
    /\ mremote \in 0..MaxMailboxes
    /\ mstored = {}
    /\ mpc = "total"
    /\ mtotal = 0
    /\ mpos = 0
    /\ mpage = <<>>
    /\ mresult = ""
    /\ mfailed = FALSE
    /\ mfetches = 0
    /\ mrun = 1
    /\ mckpt = <<>>
    /\ mprogress = NoProgress

MailboxIdle ==
    /\ mremote = 0
    /\ mstored = {}
    /\ mpc = "off"
    /\ mtotal = 0
    /\ mpos = 0
    /\ mpage = <<>>
    /\ mresult = ""
    /\ mfailed = FALSE
    /\ mfetches = 0
    /\ mrun = 0
    /\ mckpt = <<>>
    /\ mprogress = NoProgress

\* mailboxes, lines 15-16.
MailboxTotal ==
    /\ mpc = "total"
    /\ \/ /\ mtotal' = mremote
          /\ mpc' = "fetch"
          /\ UNCHANGED mresult
       \/ /\ mpc' = "done"
          /\ mresult' = "Error fetching total count"
          /\ UNCHANGED mtotal
    /\ UNCHANGED <<mremote, mstored, mpos, mpage, mfailed, mfetches, mrun,
                   mckpt, mprogress>>

\* mailboxes, lines 19-20.
MailboxFetch ==
    /\ mpc = "fetch"
    /\ \/ /\ mpage' = fetch_mailboxes(MailboxCursor(mpos), maxObjects)
          /\ mfetches' = mfetches + 1
          /\ mpc' = "process"
          /\ UNCHANGED mresult
       \/ /\ mpc' = "done"
          /\ mresult' = "Error fetching mailboxes"
          /\ UNCHANGED <<mpage, mfetches>>
    /\ UNCHANGED <<mremote, mstored, mtotal, mpos, mfailed, mrun, mckpt, mprogress>>

\* MailboxProcess that moves the mailboxes: what it has written it destroys
\* on the server.
MailboxProcessMoves ==
    /\ mpc = "process"
    /\ \E ok \in SUBSET Range(mpage) :
          /\ mstored' = mstored \cup ok
          /\ mfailed' = (mfailed \/ ok # Range(mpage))
          /\ mremote' = mremote - Cardinality(ok)
    /\ mpos' = mpos + Len(mpage)
    /\ IF mpos' >= mtotal
          THEN mpc' = "done" /\ mresult' = "ok"
          ELSE mpc' = "fetch" /\ UNCHANGED mresult
    /\ UNCHANGED <<mtotal, mpage, mfetches, mrun, mckpt, mprogress>>

\* mailboxes, lines 23-37: process_mailbox of every mailbox of the page (ok
\* are those whose write succeeds, the errors are dropped), pb.inc and the
\* loop test.
MailboxProcess ==
    /\ mpc = "process"
    /\ \E ok \in SUBSET Range(mpage) :
          /\ mstored' = mstored \cup ok
          /\ mfailed' = (mfailed \/ ok # Range(mpage))
    /\ mpos' = mpos + Len(mpage)
    /\ IF mpos' >= mtotal
          THEN mpc' = "done" /\ mresult' = "ok"
          ELSE mpc' = "fetch" /\ UNCHANGED mresult
    /\ UNCHANGED <<mremote, mtotal, mpage, mfetches, mrun, mckpt, mprogress>>

\* The process is killed at an await point of mailboxes; its memory is lost.
MailboxKill ==
    /\ mpc \in {"total", "fetch", "process"}
    /\ mpc' = "idle"
    /\ mtotal' = 0
    /\ mpos' = 0
    /\ mpage' = <<>>
    /\ mfetches' = 0
    /\ UNCHANGED <<mremote, mstored, mresult, mfailed, mrun, mckpt, mprogress>>

\* backup, line 55: a new process calls mailboxes, which starts at line 15
\* with the count query: no object of /progress/ is read.
MailboxStart ==
    /\ mpc \in {"idle", "done"}
    /\ mrun < MaxRuns
    /\ mrun' = mrun + 1
    /\ mpc' = "total"
    /\ mtotal' = 0
    /\ mpos' = 0
    /\ mpage' = <<>>
    /\ mfetches' = 0
    /\ mresult' = ""
    /\ UNCHANGED <<mremote, mstored, mfailed, mckpt, mprogress>>

MailboxNext ==
    \/ MailboxTotal
    \/ MailboxFetch
    \/ MailboxProcess
    \/ MailboxKill
    \/ MailboxStart

\* ------------------------------------- mailbox sync, checkpointed variant
\* backup/mailboxes.rs, lines 9-15: the state at the call of mailboxes.
LegacyInit ==
    /\ mremote \in 0..MaxMailboxes
    /\ mstored = {}
    /\ mpc = "read"
    /\ mtotal = 0
    /\ mpos = 0
    /\ mpage = <<>>
    /\ mresult = ""
    /\ mfailed = FALSE
    /\ mfetches = 0
    /\ mrun = 1
    /\ mckpt = <<>>
    /\ mprogress = NoProgress

\* backup/progress.rs, lines 14-36.
legacy_read_backup_progress(c) == IF c = <<>> THEN NoProgress ELSE c[1]

\* backup/mailboxes.rs, lines 16-22: read the checkpoint, pb.inc(position).
LegacyReadProgress ==
    /\ mpc = "read"
    /\ \/ /\ mprogress' = legacy_read_backup_progress(mckpt)
          /\ mpos' = mpos + mprogress'.position
          /\ mpc' = "fetch"
          /\ UNCHANGED mresult
       \/ /\ mpc' = "done"
          /\ mresult' = "Error reading backup progress"
          /\ UNCHANGED <<mprogress, mpos>>
    /\ UNCHANGED <<mremote, mstored, mtotal, mpage, mfailed, mfetches, mrun,
                   mckpt>>

\* backup/mailboxes.rs, lines 25-29: fetch the page at the stored position
\* and advance the position by its length.
LegacyFetch ==
    /\ mpc = "fetch"
    /\ \/ /\ mpage' = fetch_mailboxes(mprogress.position, maxObjects)
          /\ mtotal' = mremote
          /\ mprogress' = [mprogress EXCEPT !.position = @ + Len(mpage')]
          /\ mfetches' = mfetches + 1
          /\ mpc' = "process"
          /\ UNCHANGED mresult
       \/ /\ mpc' = "done"
          /\ mresult' = "Error fetching mailboxes"
          /\ UNCHANGED <<mpage, mtotal, mprogress, mfetches>>
    /\ UNCHANGED <<mremote, mstored, mpos, mfailed, mrun, mckpt>>

\* backup/mailboxes.rs, lines 32-43: process_mailbox of every mailbox of the
\* page (ok are those whose write succeeds, the errors are dropped), pb.inc,
\* and the id of every mailbox of the page appended to items.
LegacyProcess ==
    /\ mpc = "process"
    /\ \E ok \in SUBSET Range(mpage) :
          /\ mstored' = mstored \cup ok
          /\ mfailed' = (mfailed \/ ok # Range(mpage))
    /\ mpos' = mpos + Len(mpage)
    /\ mprogress' = [mprogress EXCEPT !.items = @ \o mpage]
    /\ mpc' = "progress"
    /\ UNCHANGED <<mremote, mtotal, mpage, mresult, mfetches, mrun, mckpt>>

\* backup/mailboxes.rs, lines 46-52: the checkpoint write and the loop test.
LegacyWriteProgress ==
    /\ mpc = "progress"
    /\ \/ /\ mckpt' = <<mprogress>>
          /\ IF mprogress.position >= mtotal
                THEN mpc' = "done" /\ mresult' = "ok"
                ELSE mpc' = "fetch" /\ UNCHANGED mresult
       \/ /\ mpc' = "done"
          /\ mresult' = "Error writing backup progress"
          /\ UNCHANGED mckpt
    /\ UNCHANGED <<mremote, mstored, mtotal, mpos, mpage, mfailed, mfetches,
                   mrun, mprogress>>

\* The process is killed at an await point of mailboxes; its memory is lost.
LegacyKill ==
    /\ mpc \in {"read", "fetch", "process", "progress"}
    /\ mpc' = "idle"
    /\ mtotal' = 0
    /\ mpos' = 0
    /\ mpage' = <<>>
    /\ mfetches' = 0
    /\ mprogress' = NoProgress
    /\ UNCHANGED <<mremote, mstored, mresult, mfailed, mrun, mckpt>>

\* A new process calls mailboxes.
LegacyStart ==
    /\ mpc \in {"idle", "done"}
    /\ mrun < MaxRuns
    /\ mrun' = mrun + 1
    /\ mpc' = "read"
    /\ mtotal' = 0
    /\ mpos' = 0
    /\ mpage' = <<>>
    /\ mfetches' = 0
    /\ mresult' = ""
    /\ mprogress' = NoProgress
    /\ UNCHANGED <<mremote, mstored, mfailed, mckpt>>

LegacyNext ==
    \/ LegacyReadProgress
    \/ LegacyFetch
    \/ LegacyProcess
    \/ LegacyWriteProgress
    \/ LegacyKill
    \/ LegacyStart

\* -------------------------------------------------------------- restore
RIds == 1..MaxRestore

\* All orders in which the elements of S can be laid out in a Vec.
Perms(S) ==
    {s \in [1..Cardinality(S) -> S] : \A i, j \in 1..Cardinality(S) : s[i] = s[j] => i = j}

\* sort_mailboxes, lines 19-21: node_indices, the NodeIndex of a mailbox id
\* in the Vec ms (NodeIndex k is the k-th node added, counted from 0).
node_indices(ms, id) == (CHOOSE k \in 1..Len(ms) : ms[k] = id) - 1

\* Edges with the edge drawn from the child to the parent.
EdgesReversed(ms) ==
    {<<node_indices(ms, ms[k]), node_indices(ms, parent[ms[k]])>> :
        k \in {j \in 1..Len(ms) : parent[ms[j]] # 0 /\ parent[ms[j]] \in Range(ms)}}

\* Edges without the edge of a mailbox that is its own parent.
EdgesNoSelfLoop(ms) ==
    {<<node_indices(ms, parent[ms[k]]), node_indices(ms, ms[k])>> :
        k \in {j \in 1..Len(ms) : /\ parent[ms[j]] # 0
                                  /\ parent[ms[j]] \in Range(ms)
                                  /\ parent[ms[j]] # ms[j]}}

\* sort_mailboxes, lines 24-31: the edges of the graph, as pairs of
\* NodeIndex <<from, to>>: parent -> child when the parent is in the Vec.
Edges(ms) ==
    {<<node_indices(ms, parent[ms[k]]), node_indices(ms, ms[k])>> :
        k \in {j \in 1..Len(ms) : parent[ms[j]] # 0 /\ parent[ms[j]] \in Range(ms)}}

\* Nodes reachable from node a along at least one edge of E.
RECURSIVE ReachFrom(_, _, _)
ReachFrom(E, frontier, seen) ==
    LET next == {e[2] : e \in {d \in E : d[1] \in frontier}} \ seen
    IN  IF next = {} THEN seen ELSE ReachFrom(E, next, seen \cup next)

OnCycle(E, a) == a \in ReachFrom(E, {a}, {})

\* petgraph::algo::toposort, Ok case: the orders of the nodes 0..n-1 in which
\* every node comes before its successors (which one is not specified).
TopoOrders(n, E) ==
    {s \in Perms(0..(n - 1)) :
        \A e \in E : \A i, j \in 1..n : (s[i] = e[1] /\ s[j] = e[2]) => i < j}

\* petgraph::algo::toposort, Err case: Cycle(node) for a node that is part of
\* a cycle (a self loop is a cycle).
CycleNodes(n, E) == {a \in 0..(n - 1) : OnCycle(E, a)}

\* sort_mailboxes, lines 37-42: graph.node_weight(index), then the mailbox
\* of ms with that id.
sorted_mailboxes(ms, order) ==
    [k \in 1..Len(order) |-> ms[CHOOSE j \in 1..Len(ms) : ms[j] = ms[order[k] + 1]]]

RestoreInit ==
    /\ ids \in 0..MaxMessages
    /\ onServer = {}
    /\ referenced = {}
    /\ parent = [i \in RIds |-> 0]
    /\ toRestore = {}
    /\ mailboxes = <<>>
    /\ rpc = "server"
    /\ sorted = <<>>
    /\ cycleNode = -1
    /\ created = <<>>
    /\ assigned = [i \in RIds |-> 0]
    /\ recreated = {}
    /\ loadFailed = FALSE
    /\ rresult = ""

RestoreIdle ==
    /\ ids = 0
    /\ onServer = {}
    /\ referenced = {}
    /\ parent = [i \in RIds |-> 0]
    /\ toRestore = {}
    /\ mailboxes = <<>>
    /\ rpc = "off"
    /\ sorted = <<>>
    /\ cycleNode = -1
    /\ created = <<>>
    /\ assigned = [i \in RIds |-> 0]
    /\ recreated = {}
    /\ loadFailed = FALSE
    /\ rresult = ""

\* Variables that restore_emails never assigns after they are set.
restoreFrame == <<ids, recreated>>

\* restore_emails, lines 252-257: the ids of the mailboxes the server returns.
FetchServerMailboxes ==
    /\ rpc = "server"
    /\ \/ /\ onServer' \in SUBSET RIds
          /\ rpc' = "emails"
          /\ UNCHANGED rresult
       \/ /\ rpc' = "done"
          /\ rresult' = "Error fetching mailboxes"
          /\ UNCHANGED onServer
    /\ UNCHANGED <<restoreFrame, assigned, referenced, parent, toRestore, mailboxes, sorted,
                   cycleNode, created, loadFailed>>

\* The difference without the mailboxes of the server taken out.
mailbox_ids_no_difference(in_emails, on_server) == in_emails

\* restore_emails, lines 288-291: mailbox_ids_to_restore.
mailbox_ids_to_restore(in_emails, on_server) == in_emails \ on_server

\* LoadEmails that passes over an email it cannot read.
LoadEmailsSkipUnreadable ==
    /\ rpc = "emails"
    /\ \E readable \in SUBSET (1..ids) :
         \E mailbox_ids \in [1..ids -> SUBSET RIds] :
            /\ referenced' = UNION {mailbox_ids[i] : i \in readable}
            /\ toRestore' = mailbox_ids_to_restore(referenced', onServer)
            /\ loadFailed' = (readable # 1..ids)
    /\ rpc' = "load"
    /\ UNCHANGED <<restoreFrame, assigned, onServer, parent, mailboxes, sorted, cycleNode,
                   created, rresult>>

\* restore_emails, lines 260-291: the requested emails are read from storage
\* and decoded (mailbox_ids: the mailboxIds of each), then the mailbox ids
\* they name and the ones of them that the server does not have.
LoadEmails ==
    /\ rpc = "emails"
    /\ \/ /\ \E mailbox_ids \in [1..ids -> SUBSET RIds] :
                /\ referenced' = UNION {mailbox_ids[i] : i \in 1..ids}
                /\ toRestore' = mailbox_ids_to_restore(referenced', onServer)
          /\ rpc' = "load"
          /\ UNCHANGED <<loadFailed, rresult>>
       \/ /\ ids > 0
          /\ loadFailed' = TRUE
          /\ rpc' = "done"
          /\ rresult' = "Error reading email"
          /\ UNCHANGED <<referenced, toRestore>>
    /\ UNCHANGED <<restoreFrame, assigned, onServer, parent, mailboxes, sorted, cycleNode,
                   created>>

\* restore_emails, lines 294-301: the missing mailboxes are loaded from
\* storage (parent: the parentId read for each); the Vec order is the
\* completion order of the loads.
LoadMailboxes ==
    /\ rpc = "load"
    /\ \/ /\ parent' \in {f \in [RIds -> 0..MaxRestore] :
                            \A m \in RIds \ toRestore : f[m] = 0}
          /\ mailboxes' \in Perms(toRestore)
          /\ rpc' = "sort"
          /\ UNCHANGED <<loadFailed, rresult>>
       \/ /\ toRestore # {}
          /\ loadFailed' = TRUE
          /\ rpc' = "done"
          /\ rresult' = "Error reading mailbox"
          /\ UNCHANGED <<parent, mailboxes>>
    /\ UNCHANGED <<restoreFrame, assigned, onServer, referenced, toRestore, sorted,
                   cycleNode, created>>

\* restore_emails, line 304: sort_mailboxes(mailboxes_to_restore)?
SortMailboxes ==
    /\ rpc = "sort"
    /\ LET n == Len(mailboxes)
           E == Edges(mailboxes)
       IN  IF CycleNodes(n, E) = {}
              THEN /\ \E order \in TopoOrders(n, E) :
                         sorted' = sorted_mailboxes(mailboxes, order)
                   /\ rpc' = "create"
                   /\ UNCHANGED <<cycleNode, rresult>>
              ELSE /\ cycleNode' \in CycleNodes(n, E)
                   /\ rpc' = "done"
                   /\ rresult' = "Error sorting mailboxes: cycle detected"
                   /\ UNCHANGED sorted
    /\ UNCHANGED <<restoreFrame, assigned, onServer, referenced, parent, toRestore,
                   mailboxes, created, loadFailed>>

\* create_mailboxes, line 79: the parentId sent in the create of mailbox m
\* is the parentId read from storage, as it is.
parent_id(m) == parent[m]

\* The ids the server may give to the mailboxes it creates.  The ids are the
\* server's choice: it gives every mailbox the id it had when it was backed
\* up (none of them is in use, the mailboxes being missing on the server) or
\* it gives every mailbox a new id.
ServerIds(S) ==
    {[m \in RIds |-> IF m \in S THEN m ELSE 0],
     [m \in RIds |-> IF m \in S THEN MaxRestore + m ELSE 0]}

\* restore_emails, lines 307-309: create_mailboxes(client, sorted): one
\* create per mailbox, in Vec order, then the request is sent; restore_emails
\* returns after it.
CreateMailboxes ==
    /\ rpc = "create"
    /\ created' = sorted
    /\ rpc' = "done"
    /\ \/ /\ rresult' = "ok"
          /\ assigned' \in ServerIds(Range(sorted))
       \/ /\ rresult' = "Error creating mailboxes"
          /\ UNCHANGED assigned
    /\ UNCHANGED <<restoreFrame, onServer, referenced, parent, toRestore,
                   mailboxes, sorted, cycleNode, loadFailed>>

RestoreNext ==
    \/ FetchServerMailboxes
    \/ LoadEmails
    \/ LoadMailboxes
    \/ SortMailboxes
    \/ CreateMailboxes

\* --------------------------------------------------------------- search
\* Words of the indexed texts (tests::test_search indexes a body with "Hello"
\* and queries "Hello" and "Goodbye").
Terms == {"hello"}

\* A query word that occurs in no indexed text, and a query that the query
\* parser rejects.
Queries == Terms \cup {"goodbye", "("}

\* Identifiers of messages and blobs (tests::test_search: "123", "456").
Idents == {"123", "456"}

\* A text field after tokenizing: the set of its words.
Texts == SUBSET Terms

\* jmap_client::email::Email as write_document reads it.
Emails == [id : Idents, blob_id : Idents, subject : Texts]

\* write_document, lines 91-114: the document of an email and the body of
\* its parsed message.
Document(email, body) ==
    [id |-> email.id, blob_id |-> email.blob_id, subject |-> email.subject,
     body |-> body]

\* Matching that looks at the subject field only.
MatchingSubjectOnly(ix, q) == {a \in 1..Len(ix) : q \in ix[a].subject}

\* search, lines 130-135: the committed documents that have the query word
\* in one of the default fields of the query parser, subject and body.
MatchingDocs(ix, q) == {a \in 1..Len(ix) : q \in ix[a].subject \cup ix[a].body}

\* search, lines 139-161: the SearchResult built from a stored document.
SearchResult(doc) ==
    [id |-> doc.blob_id, blob_id |-> doc.blob_id, subject |-> doc.subject]

SearchInit ==
    /\ pending = <<>>
    /\ index = <<>>
    /\ squery = ""
    /\ top_docs = <<>>
    /\ docs = <<>>
    /\ sresult = ""

SearchIdle ==
    /\ pending = <<>>
    /\ index = <<>>
    /\ squery = ""
    /\ top_docs = <<>>
    /\ docs = <<>>
    /\ sresult = "off"

\* write_document: the document is added to the writer.
WriteDocument ==
    /\ sresult # "off"
    /\ Len(index) + Len(pending) < MaxDocs
    /\ \E email \in Emails, body \in Texts :
          pending' = Append(pending, Document(email, body))
    /\ squery' = ""
    /\ top_docs' = <<>>
    /\ docs' = <<>>
    /\ sresult' = ""
    /\ UNCHANGED index

\* indexer.commit(): the added documents become visible to new searchers.
Commit ==
    /\ sresult # "off"
    /\ pending # <<>>
    /\ index' = index \o pending
    /\ pending' = <<>>
    /\ squery' = ""
    /\ top_docs' = <<>>
    /\ docs' = <<>>
    /\ sresult' = ""

\* search(folder, query, limit): limit 0 stands for None.
Search ==
    /\ sresult # "off"
    /\ \E query \in Queries, limit \in 0..MaxDocs :
          /\ squery' = query
          /\ IF query = "("
                THEN /\ sresult' = "Error parsing query"
                     /\ top_docs' = <<>>
                     /\ docs' = <<>>
                ELSE LET found == MatchingDocs(index, query)
                         n == Min(IF limit = 0 THEN DefaultLimit ELSE limit,
                                  Cardinality(found))
                     IN  /\ top_docs' \in {t \in [1..n -> found] :
                                             \A i, j \in 1..n : t[i] = t[j] => i = j}
                         /\ docs' = [k \in 1..n |-> SearchResult(index[top_docs'[k]])]
                         /\ sresult' = "ok"
    /\ UNCHANGED <<pending, index>>

SearchNext ==
    \/ WriteDocument
    \/ Commit
    \/ Search

\* -------------------------------------------------------- storage paths
\* Characters of identifiers.
Chars == {"a", "b"}

\* Identifiers: 1 to MaxIdLen characters.
Strings == UNION {[1..n -> Chars] : n \in 1..MaxIdLen}

\* The thread panics: a str slice past the end of the str.
Panic == <<"panic">>

\* &id[..n]
Slice(id, n) == SubSeq(id, 1, n)

\* format!("/mailboxes/{}.json", id)
mailbox_path(id) ==
    <<"/", "m", "a", "i", "l", "b", "o", "x", "e", "s", "/">> \o id
        \o <<".", "j", "s", "o", "n">>

\* The path of an email without the shard directory.
email_path_unsharded(id) ==
    IF Len(id) < 3 THEN Panic
    ELSE <<"/", "e", "m", "a", "i", "l", "s", "/">> \o id
            \o <<".", "j", "s", "o", "n">>

\* format!("/emails/{}/{}.json", &id[..3], id)
email_path(id) ==
    IF Len(id) < 3 THEN Panic
    ELSE <<"/", "e", "m", "a", "i", "l", "s", "/">> \o Slice(id, 3) \o <<"/">> \o id
            \o <<".", "j", "s", "o", "n">>

\* format!("/blobs/{}/{}", &blob_id[..2], blob_id)
blob_path(id) ==
    IF Len(id) < 2 THEN Panic
    ELSE <<"/", "b", "l", "o", "b", "s", "/">> \o Slice(id, 2) \o <<"/">> \o id

\* The places that derive a storage path: sync writes mailboxes, emails and
\* blobs, restore reads emails and mailboxes, open reads a blob.
Sites == {<<"sync", "mailbox">>, <<"sync", "email">>, <<"sync", "blob">>,
          <<"restore", "email">>, <<"restore", "mailbox">>, <<"open", "blob">>}

\* restore_emails, line 264, sharded by two characters instead of three.
restore_email_path_short(id) ==
    IF Len(id) < 2 THEN Panic
    ELSE <<"/", "e", "m", "a", "i", "l", "s", "/">> \o Slice(id, 2) \o <<"/">> \o id
            \o <<".", "j", "s", "o", "n">>

\* restore_emails, line 264: format!("/emails/{}/{}.json", &id[..3], id)
restore_email_path(id) ==
    IF Len(id) < 3 THEN Panic
    ELSE <<"/", "e", "m", "a", "i", "l", "s", "/">> \o Slice(id, 3) \o <<"/">> \o id
            \o <<".", "j", "s", "o", "n">>

\* get_mailbox_from_storage, line 36: format!("/mailboxes/{}.json", id)
get_mailbox_path(id) ==
    <<"/", "m", "a", "i", "l", "b", "o", "x", "e", "s", "/">> \o id
        \o <<".", "j", "s", "o", "n">>

\* main, line 88: format!("/blobs/{}/{}", &id[..2], id)
open_blob_path(id) ==
    IF Len(id) < 2 THEN Panic
    ELSE <<"/", "b", "l", "o", "b", "s", "/">> \o Slice(id, 2) \o <<"/">> \o id

\* The path that the code at site st derives for the identifier id.
Path(st, id) ==
    CASE st = <<"sync", "mailbox">> -> mailbox_path(id)
      [] st = <<"sync", "email">> -> email_path(id)
      [] st = <<"sync", "blob">> -> blob_path(id)
      [] st = <<"restore", "email">> -> restore_email_path(id)
      [] st = <<"restore", "mailbox">> -> get_mailbox_path(id)
      [] st = <<"open", "blob">> -> open_blob_path(id)

PathInit ==
    /\ site \in Sites
    /\ idA \in Strings
    /\ idB \in Strings
    /\ pathA = <<>>
    /\ pathB = <<>>

PathIdle ==
    /\ site = <<"off", "off">>
    /\ idA = <<>>
    /\ idB = <<>>
    /\ pathA = <<>>
    /\ pathB = <<>>

\* The path of idA is derived.
DerivePathA ==
    /\ site \in Sites
    /\ pathA = <<>>
    /\ pathA' = Path(site, idA)
    /\ UNCHANGED <<site, idA, idB, pathB>>

\* The path of idB is derived.
DerivePathB ==
    /\ site \in Sites
    /\ pathB = <<>>
    /\ pathB' = Path(site, idB)
    /\ UNCHANGED <<site, idA, idB, pathA>>

PathNext ==
    \/ DerivePathA
    \/ DerivePathB

\* ------------------------------------------- one page, task by task
Tasks == 1..tlen

\* Blob identifiers of the remote: the identifier of the raw message, which
\* two emails with the same content share.
BlobIds == {"b1", "b2"}

\* The futures of the stream f that have been polled and have not completed.
InFlight(f, states) == Cardinality({i \in Tasks : f[i] \in states})

\* The stream takes its futures from the iterator in the order of the page.
NextNew(f, i) == f[i] = "new" /\ \A j \in 1..(i - 1) : f[j] # "new"

Completed(f) == \A i \in Tasks : f[i] \in {"ok", "err"}

\* backup_emails, line 53: a page has been fetched.
TaskInit ==
    /\ tlen \in 0..MaxTasks
    /\ tindexing \in BOOLEAN
    /\ blob_ids \in [Tasks -> BlobIds]
    /\ email_task = [i \in Tasks |-> "new"]
    /\ blob_task = [i \in Tasks |-> "new"]
    /\ doc_task = [i \in Tasks |-> "new"]
    /\ tblobs = <<>>
    /\ tpc = "emails"
    /\ commits = 0
    /\ tckpt = FALSE
    /\ tresult = ""

TaskIdle ==
    /\ tlen = 0
    /\ tindexing = FALSE
    /\ blob_ids = <<>>
    /\ email_task = <<>>
    /\ blob_task = <<>>
    /\ doc_task = <<>>
    /\ tblobs = <<>>
    /\ tpc = "off"
    /\ commits = 0
    /\ tckpt = FALSE
    /\ tresult = ""

\* line 56, buffer_unordered(50): the stream polls the next backup_email
\* while fewer than 50 are in flight; the future starts its storage write.
StartEmailTask(i) ==
    /\ tpc = "emails"
    /\ NextNew(email_task, i)
    /\ InFlight(email_task, {"write"}) < EmailConcurrency
    /\ email_task' = [email_task EXCEPT ![i] = "write"]
    /\ UNCHANGED <<tlen, tindexing, blob_ids, tblobs, blob_task, doc_task,
                   tpc, commits, tckpt, tresult>>

\* backup_email, lines 156-162: the write returns; its error is dropped.
FinishEmailTask(i) ==
    /\ tpc = "emails"
    /\ email_task[i] = "write"
    /\ \E r \in {"ok", "err"} : email_task' = [email_task EXCEPT ![i] = r]
    /\ UNCHANGED <<tlen, tindexing, blob_ids, tblobs, blob_task, doc_task,
                   tpc, commits, tckpt, tresult>>

\* lines 57-58: collect().await returns when the stream is exhausted.
CollectEmails ==
    /\ tpc = "emails"
    /\ Completed(email_task)
    /\ tpc' = "blobs"
    /\ UNCHANGED <<tlen, tindexing, blob_ids, tblobs, email_task, blob_task,
                   doc_task, commits, tckpt, tresult>>

\* The outputs in the order of completion, as buffer_unordered yields them.
buffer_unordered(out, f, i) == Append(out, i)

\* line 64, buffered(50): the stream yields the outputs in the order of its
\* futures; a completed future waits for the ones before it.  out: the
\* outputs yielded so far, f: the futures after future i has completed.
buffered(out, f, i) ==
    LET ready == {k \in 0..tlen : \A j \in 1..k : f[j] \in {"ok", "err"}}
        n == CHOOSE k \in ready : \A m \in ready : m <= k
    IN  [k \in 1..n |-> k]

\* line 64, buffered(50): the stream polls the next backup_blob while fewer
\* than 50 are in flight; the future starts its download.
StartBlobTask(i) ==
    /\ tpc = "blobs"
    /\ NextNew(blob_task, i)
    /\ InFlight(blob_task, {"download", "write"}) < BlobConcurrency
    /\ blob_task' = [blob_task EXCEPT ![i] = "download"]
    /\ UNCHANGED <<tlen, tindexing, blob_ids, tblobs, email_task, doc_task,
                   tpc, commits, tckpt, tresult>>

\* backup_blob, lines 131-134: the download returns; Err ends the future.
BlobDownloaded(i) ==
    /\ tpc = "blobs"
    /\ blob_task[i] = "download"
    /\ \E r \in {"write", "err"} : blob_task' = [blob_task EXCEPT ![i] = r]
    /\ tblobs' = IF blob_task'[i] = "err" THEN buffered(tblobs, blob_task', i)
                                        ELSE tblobs
    /\ UNCHANGED <<tlen, tindexing, blob_ids, email_task, doc_task, tpc,
                   commits, tckpt, tresult>>

\* backup_blob, lines 138-143: the storage write returns.
BlobWritten(i) ==
    /\ tpc = "blobs"
    /\ blob_task[i] = "write"
    /\ \E r \in {"ok", "err"} : blob_task' = [blob_task EXCEPT ![i] = r]
    /\ tblobs' = buffered(tblobs, blob_task', i)
    /\ UNCHANGED <<tlen, tindexing, blob_ids, email_task, doc_task, tpc,
                   commits, tckpt, tresult>>

\* CollectBlobs without waiting for the payload tasks.
CollectBlobsEarly ==
    /\ tpc = "blobs"
    /\ tpc' = IF tindexing THEN "index" ELSE "progress"
    /\ UNCHANGED <<tlen, tindexing, blob_ids, tblobs, email_task, blob_task,
                   doc_task, commits, tckpt, tresult>>

\* lines 65-66 and 78-81: collect().await returns when the stream is
\* exhausted; index_emails is called when there is an indexer.
CollectBlobs ==
    /\ tpc = "blobs"
    /\ Completed(blob_task)
    /\ tpc' = IF tindexing THEN "index" ELSE "progress"
    /\ UNCHANGED <<tlen, tindexing, blob_ids, tblobs, email_task, blob_task,
                   doc_task, commits, tckpt, tresult>>

\* index_emails, lines 108-111: emails_res.into_iter().zip(blobs.into_iter())
\* has one pair per position that both hold.
Pairs == Tasks \cap DOMAIN tblobs

\* index_emails, lines 113-118: the closure of one (email, blob) pair, run by
\* par_iter in any order; zip pairs emails_res[i] with blobs[i].  write_document is called for an Ok payload and its
\* result is dropped; an Err payload is passed over.
AddDocument(i) ==
    /\ tpc = "index"
    /\ i \in Pairs
    /\ doc_task[i] = "new"
    /\ \E r \in (IF blob_task[tblobs[i]] = "ok" THEN {"added", "failed"}
                                               ELSE {"skipped"}) :
          doc_task' = [doc_task EXCEPT ![i] = r]
    /\ UNCHANGED <<tlen, tindexing, blob_ids, tblobs, email_task, blob_task,
                   tpc, commits, tckpt, tresult>>

\* CommitIndex without waiting for the closures of par_iter.
CommitIndexEarly ==
    /\ tpc = "index"
    /\ commits' = commits + 1
    /\ \/ tpc' = "progress" /\ UNCHANGED tresult
       \/ tpc' = "abort" /\ tresult' = "Error committing indexer"
    /\ UNCHANGED <<tlen, tindexing, blob_ids, tblobs, email_task, blob_task,
                   doc_task, tckpt>>

\* index_emails, lines 119-122: for_each has returned; commit, and return the
\* error of a failed commit (line 80).
CommitIndex ==
    /\ tpc = "index"
    /\ \A i \in Pairs : doc_task[i] # "new"
    /\ commits' = commits + 1
    /\ \/ tpc' = "progress" /\ UNCHANGED tresult
       \/ tpc' = "abort" /\ tresult' = "Error committing indexer"
    /\ UNCHANGED <<tlen, tindexing, blob_ids, tblobs, email_task, blob_task,
                   doc_task, tckpt>>

\* lines 83-96: the checkpoint write of the page; the iteration ends.
WritePageProgress ==
    /\ tpc = "progress"
    /\ \/ tckpt' = TRUE /\ tpc' = "end" /\ UNCHANGED tresult
       \/ /\ tpc' = "abort"
          /\ tresult' = "Error writing backup progress"
          /\ UNCHANGED tckpt
    /\ UNCHANGED <<tlen, tindexing, blob_ids, tblobs, email_task, blob_task,
                   doc_task, commits>>

TaskNext ==
    \/ \E i \in Tasks : StartEmailTask(i)
    \/ \E i \in Tasks : FinishEmailTask(i)
    \/ CollectEmails
    \/ \E i \in Tasks : StartBlobTask(i)
    \/ \E i \in Tasks : BlobDownloaded(i)
    \/ \E i \in Tasks : BlobWritten(i)
    \/ CollectBlobs
    \/ \E i \in Tasks : AddDocument(i)
    \/ CommitIndex
    \/ WritePageProgress

\* ------------------------------------- one bounded stream, by count
Streams == {"mailboxes", "emails", "blobs", "restore_emails", "restore_mailboxes"}

\* The argument of buffer_unordered / buffered of each stream.
Limit(s) ==
    IF s = "mailboxes" THEN MailboxConcurrency
    ELSE IF s = "emails" THEN EmailConcurrency
    ELSE IF s = "blobs" THEN BlobConcurrency
    ELSE RestoreConcurrency

\* stream::iter over the fetched page (mailboxes.rs line 23, email.rs line
\* 55) or over the ids given to restore (email.rs line 260).
StreamInit ==
    /\ stream \in {"mailboxes", "emails", "restore_emails"}
    /\ slen \in 0..MaxQueued
    /\ queued = slen
    /\ in_flight = 0

StreamIdle ==
    /\ stream = "off"
    /\ slen = 0
    /\ queued = 0
    /\ in_flight = 0

\* StreamPoll without the limit of the stream.
StreamPollUnbounded ==
    /\ stream \in Streams
    /\ queued > 0
    /\ queued' = queued - 1
    /\ in_flight' = in_flight + 1
    /\ UNCHANGED <<stream, slen>>

\* buffer_unordered(n) / buffered(n): the stream takes the next future from
\* its iterator and polls it while fewer than n are in flight.
StreamPoll ==
    /\ stream \in Streams
    /\ queued > 0
    /\ in_flight < Limit(stream)
    /\ queued' = queued - 1
    /\ in_flight' = in_flight + 1
    /\ UNCHANGED <<stream, slen>>

\* A future completes and its output is taken by collect / try_collect.
StreamYield ==
    /\ stream \in Streams
    /\ in_flight > 0
    /\ in_flight' = in_flight - 1
    /\ UNCHANGED <<stream, slen, queued>>

\* email.rs lines 277-278 and 300-301: try_collect returns the first Err
\* and restore_emails returns it; the stream is dropped with its futures.
StreamFail ==
    /\ stream \in {"restore_emails", "restore_mailboxes"}
    /\ in_flight > 0
    /\ stream' = "err"
    /\ queued' = 0
    /\ in_flight' = 0
    /\ UNCHANGED slen

\* The stream is exhausted and collect().await returns: the page goes on
\* with its payloads (email.rs line 60), restore with the mailboxes that
\* are missing on the server (line 294).
StreamCollect ==
    /\ stream \in Streams
    /\ queued = 0
    /\ in_flight = 0
    /\ \/ /\ stream = "emails"
          /\ stream' = "blobs"
          /\ queued' = slen
          /\ UNCHANGED slen
       \/ /\ stream = "restore_emails"
          /\ stream' = "restore_mailboxes"
          /\ slen' \in 0..MaxQueued
          /\ queued' = slen'
       \/ /\ stream \in {"mailboxes", "blobs", "restore_mailboxes"}
          /\ stream' = "end"
          /\ UNCHANGED <<slen, queued>>
    /\ UNCHANGED in_flight

StreamNext ==
    \/ StreamPoll
    \/ StreamYield
    \/ StreamFail
    \/ StreamCollect

\* ------------------------------------------------------- specifications
Init ==
    /\ maxObjects \in 1..MaxPage
    /\ EmailInit
    /\ MailboxIdle
    /\ RestoreIdle
    /\ SearchIdle
    /\ PathIdle
    /\ TaskIdle
    /\ StreamIdle

Next ==
    /\ EmailNext
    /\ UNCHANGED <<mailboxVars, restoreVars, searchVars, pathVars, taskVars, streamVars>>

Spec == Init /\ [][Next]_vars

InitMailboxes ==
    /\ maxObjects \in 1..MaxPage
    /\ EmailIdle
    /\ MailboxInit
    /\ RestoreIdle
    /\ SearchIdle
    /\ PathIdle
    /\ TaskIdle
    /\ StreamIdle

NextMailboxes ==
    /\ MailboxNext
    /\ UNCHANGED <<emailVars, restoreVars, searchVars, pathVars, taskVars, streamVars>>

SpecMailboxes == InitMailboxes /\ [][NextMailboxes]_vars

InitLegacyMailboxes ==
    /\ maxObjects \in 1..MaxPage
    /\ EmailIdle
    /\ LegacyInit
    /\ RestoreIdle
    /\ SearchIdle
    /\ PathIdle
    /\ TaskIdle
    /\ StreamIdle

NextLegacyMailboxes ==
    /\ LegacyNext
    /\ UNCHANGED <<emailVars, restoreVars, searchVars, pathVars, taskVars, streamVars>>

SpecLegacyMailboxes == InitLegacyMailboxes /\ [][NextLegacyMailboxes]_vars

\* backup, lines 54-58: the two sync passes of the backup command, each one
\* run on its own.
InitSync ==
    /\ maxObjects \in 1..MaxPage
    /\ \/ EmailInit /\ MailboxIdle
       \/ EmailIdle /\ MailboxInit
    /\ RestoreIdle
    /\ SearchIdle
    /\ PathIdle
    /\ TaskIdle
    /\ StreamIdle

NextSync ==
    /\ \/ EmailNext /\ UNCHANGED mailboxVars
       \/ MailboxNext /\ UNCHANGED emailVars
    /\ UNCHANGED <<restoreVars, searchVars, pathVars, taskVars, streamVars>>

SpecSync == InitSync /\ [][NextSync]_vars

\* The state before one message sync pass: any watermark may be stored (the
\* checkpoint of an earlier run against the remote collection of that time).
EmailPassInit ==
    /\ remote \in Collections
    /\ indexing \in BOOLEAN
    /\ stored = {}
    /\ ckpt \in {<<>>} \cup {<<t>> : t \in UNIX_EPOCH..MaxTime}
    /\ pc = "idle"
    /\ date = UNIX_EPOCH
    /\ total = 0
    /\ pos = 0
    /\ page = <<>>
    /\ result = ""
    /\ run = MaxRuns - 1
    /\ failed = 0
    /\ committed = ckpt
    /\ lastWrite = <<>>
    /\ pageCkpt = <<>>
    /\ startCkpt = <<>>
    /\ startStored = {}
    /\ wrote = {}
    /\ prevEnd = "other"
    /\ blobs = <<>>
    /\ added = {}
    /\ failedNow = {}
    /\ failedBefore = {}

InitPass ==
    /\ maxObjects \in 1..MaxPage
    /\ \/ EmailPassInit /\ MailboxIdle
       \/ EmailIdle /\ MailboxInit
    /\ RestoreIdle
    /\ SearchIdle
    /\ PathIdle
    /\ TaskIdle
    /\ StreamIdle

\* The runtime keeps polling the future of the pass, and every call to the
\* remote or to storage returns: a pass that can take a step takes one.
FairPass == InitPass /\ [][NextSync]_vars /\ WF_vars(NextSync)

InitRestore ==
    /\ maxObjects = 1
    /\ EmailIdle
    /\ MailboxIdle
    /\ RestoreInit
    /\ SearchIdle
    /\ PathIdle
    /\ TaskIdle
    /\ StreamIdle

NextRestore ==
    /\ RestoreNext
    /\ UNCHANGED <<emailVars, mailboxVars, searchVars, pathVars, taskVars, streamVars>>

SpecRestore == InitRestore /\ [][NextRestore]_vars

InitSearch ==
    /\ maxObjects = 1
    /\ EmailIdle
    /\ MailboxIdle
    /\ RestoreIdle
    /\ SearchInit
    /\ PathIdle
    /\ TaskIdle
    /\ StreamIdle

NextSearch ==
    /\ SearchNext
    /\ UNCHANGED <<emailVars, mailboxVars, restoreVars, pathVars, taskVars, streamVars>>

SpecSearch == InitSearch /\ [][NextSearch]_vars

InitPaths ==
    /\ maxObjects = 1
    /\ EmailIdle
    /\ MailboxIdle
    /\ RestoreIdle
    /\ SearchIdle
    /\ PathInit
    /\ TaskIdle
    /\ StreamIdle

NextPaths ==
    /\ PathNext
    /\ UNCHANGED <<emailVars, mailboxVars, restoreVars, searchVars, taskVars, streamVars>>

SpecPaths == InitPaths /\ [][NextPaths]_vars

\* main, lines 65 and following: one command of the program, the backup
\* (one of its two sync passes) or the restore of some messages.
InitCommands ==
    \/ InitPass
    \/ InitRestore

NextCommands ==
    \/ NextSync
    \/ NextRestore

SpecCommands == InitCommands /\ [][NextCommands]_vars

InitStreams ==
    /\ maxObjects = 1
    /\ EmailIdle
    /\ MailboxIdle
    /\ RestoreIdle
    /\ SearchIdle
    /\ PathIdle
    /\ TaskIdle
    /\ StreamInit

NextStreams ==
    /\ StreamNext
    /\ UNCHANGED <<emailVars, mailboxVars, restoreVars, searchVars, pathVars,
                   taskVars>>

SpecStreams == InitStreams /\ [][NextStreams]_vars

\* ================================================================ claims
AllStored == stored = Ids

PassOk == pc = "done" /\ result = "ok"

PassErr == pc = "done" /\ result \notin {"", "ok"}

InitPage ==
    /\ maxObjects = 1
    /\ EmailIdle
    /\ MailboxIdle
    /\ RestoreIdle
    /\ SearchIdle
    /\ PathIdle
    /\ TaskInit
    /\ StreamIdle

NextPage ==
    /\ TaskNext
    /\ UNCHANGED <<emailVars, mailboxVars, restoreVars, searchVars, pathVars,
                   streamVars>>

SpecPage == InitPage /\ [][NextPage]_vars

\* C1: a pass that started without a checkpoint, on an unchanging collection
\* and with every metadata write succeeding, ends with the metadata object of
\* every remote message in storage.
C1_FreshPassStoresAll ==
    (PassOk /\ startCkpt = <<>> /\ failed = 0) => AllStored

\* C2: a mailbox sync pass that returns success (every write succeeding) has
\* written the metadata object of every remote mailbox, not only the first
\* page.
C2_MailboxPassStoresAll ==
    (mpc = "done" /\ mresult = "ok" /\ ~mfailed) => mstored = MIds

\* C3: whenever a watermark is stored, every remote message received at or
\* before the watermark is in storage.  Stated here for the messages received
\* strictly before the watermark and for the runs in which no metadata write
\* has failed: a violation of this is a violation of the claim that does not
\* come from a failed write or from a tie at a page boundary.
C3_WatermarkCovered ==
    (ckpt # <<>> /\ failed = 0) =>
        \A i \in Ids : remote[i] < ckpt[1] => i \in stored

\* C4: when a pass has aborted with an error, the stored checkpoint is the
\* value of the last successful checkpoint write (absent if there was none),
\* and it is the checkpoint that was stored when the failing page was
\* requested: that page did not advance it.
C4_ErrorKeepsCheckpoint ==
    PassErr => (ckpt = committed /\ ckpt = pageCkpt)

\* C4 witness: the index commit of a later page fails after an earlier page
\* of the same pass wrote a checkpoint that the failing page would have moved.
C4_Witness ==
    /\ PassErr
    /\ result = "Error committing indexer"
    /\ lastWrite # <<>>
    /\ page # <<>>
    /\ last_received(page) # ckpt

\* C5: a pass that resumes from a stored watermark below which everything is
\* in storage, on an unchanging collection and with every write succeeding,
\* ends with all messages in storage.
C5_ResumeStoresAll ==
    ( /\ PassOk
      /\ startCkpt # <<>>
      /\ failed = 0
      /\ \A i \in Ids : remote[i] <= startCkpt[1] => i \in startStored )
    => AllStored

\* C6: a second pass run to completion after a completed first pass, on an
\* unchanging collection, leaves the stored objects and the stored watermark
\* as the first pass left them.
C6_SecondPassChangesNothing ==
    (PassOk /\ prevEnd = "ok" /\ failed = 0) =>
        (stored = startStored /\ ckpt = startCkpt)

\* C7: within one pass (no write failing), each checkpoint write stores a
\* watermark that is not below the one the pass wrote before it.
C7_WatermarkMonotone ==
    [][(lastWrite # <<>> /\ lastWrite' # <<>> /\ failed' = 0)
            => lastWrite'[1] >= lastWrite[1]]_vars

\* The items in storage at the start of the pass that the pass has written
\* again, counting only those received after the watermark stored at the
\* start (the pass steps the watermark back, so it fetches the items at the
\* watermark again whatever the page size).
RewrittenPastWatermark ==
    {i \in wrote \cap startStored : startCkpt = <<>> \/ remote[i] > startCkpt[1]}

\* C8: after a kill between a page's item writes and its checkpoint write,
\* the re-run writes again at most one page (max_objects) of the items that
\* were in storage at the kill.  Stated for the items received after the
\* stored watermark and for the runs in which no metadata write has failed:
\* a violation of this is a violation of the claim.
C8_AtMostOnePageRewritten ==
    (prevEnd = "killed before checkpoint" /\ pc # "idle" /\ failed = 0) =>
        Cardinality(RewrittenPastWatermark) <= maxObjects

\* The k-th ancestor of mailbox m along parent ids inside the set S (0: none).
RECURSIVE Ancestor(_, _, _)
Ancestor(S, m, k) ==
    IF k = 0 THEN m
    ELSE LET a == Ancestor(S, m, k - 1)
         IN  IF a = 0 \/ parent[a] \notin S THEN 0 ELSE parent[a]

IdOnCycle(S, m) == \E k \in 1..Cardinality(S) : Ancestor(S, m, k) = m

Cyclic(S) == \E m \in S : IdOnCycle(S, m)

SortError == "Error sorting mailboxes: cycle detected"

Sorted == rpc = "create" \/ (rpc = "done" /\ rresult \in {"ok", "Error creating mailboxes"})

\* C9: for an acyclic parent graph over the mailboxes to restore,
\* sort_mailboxes succeeds, returns each mailbox exactly once with every
\* mailbox after its parent when the parent is in the set, and the creations
\* are issued in exactly that order.
C9_ParentsFirst ==
    /\ (~Cyclic(toRestore) /\ rpc = "done") => rresult # SortError
    /\ Sorted =>
        /\ sorted \in Perms(toRestore)
        /\ \A i, j \in 1..Len(sorted) : parent[sorted[j]] = sorted[i] => i < j
        /\ rpc = "done" => created = sorted

\* C9 witness: a chain of three mailboxes, loaded in another order than the
\* one they are created in.
C9_Witness ==
    /\ rpc = "done"
    /\ rresult = "ok"
    /\ Len(created) = 3
    /\ parent[created[2]] = created[1]
    /\ parent[created[3]] = created[2]
    /\ mailboxes # created

\* C10: when the parent graph of the mailboxes to restore has a cycle, the
\* sort reports a node on a cycle, restore ends with that error (or with an
\* earlier load error) and no creation is issued.
C10_CycleIsFatal ==
    /\ Cyclic(toRestore) => (rpc # "create" /\ created = <<>>)
    /\ (Cyclic(toRestore) /\ rpc = "done") =>
            rresult \in {SortError, "Error reading mailbox"}
    /\ rresult = SortError =>
        /\ cycleNode \in 0..(Len(mailboxes) - 1)
        /\ IdOnCycle(toRestore, mailboxes[cycleNode + 1])

\* C10 witness: a cycle of two mailboxes with a third one below it; the
\* sort has reported the cycle.
C10_Witness ==
    /\ rpc = "done"
    /\ rresult = SortError
    /\ Cardinality(toRestore) = 3
    /\ \E a, b, c \in toRestore :
          /\ a # b /\ b # c /\ a # c
          /\ parent[a] = b /\ parent[b] = a /\ parent[c] = a

\* C11: once a read of a requested message or of a mailbox to create has
\* failed, restore has returned that error, and no mailbox and no message has
\* been created on the server.
C11_LoadErrorCreatesNothing ==
    loadFailed =>
        /\ rpc = "done"
        /\ rresult \in {"Error reading email", "Error reading mailbox"}
        /\ created = <<>>
        /\ recreated = {}

\* C11 witness: the messages were read, two mailboxes had to be created and
\* the read of one of them failed.
C11_Witness ==
    /\ loadFailed
    /\ rresult = "Error reading mailbox"
    /\ ids > 0
    /\ Cardinality(toRestore) >= 2

\* C12: restore never issues the creation of a mailbox of the remote set it
\* fetched, and a restore that succeeds has created every mailbox that a
\* requested message is a member of and that set lacks.
C12_CreatesExactlyMissing ==
    /\ Range(created) \cap onServer = {}
    /\ (rpc = "done" /\ rresult = "ok") => (referenced \ onServer) \subseteq Range(created)

\* C12 witness: the messages name a mailbox the server has and one it lacks;
\* only the second one was created.
C12_Witness ==
    /\ rpc = "done"
    /\ rresult = "ok"
    /\ ids = MaxMessages
    /\ referenced \cap onServer # {}
    /\ Range(created) = referenced \ onServer
    /\ created # <<>>

\* C13: when restore has issued its mailbox creations, every created mailbox
\* whose parent is absent from the server has that parent created too, before
\* it.
C13_MissingParentCreated ==
    (rpc = "done" /\ created # <<>>) =>
        \A j \in 1..Len(created) :
            (parent[created[j]] # 0 /\ parent[created[j]] \notin onServer) =>
                \E i \in 1..(j - 1) : created[i] = parent[created[j]]

\* C14: a restore that succeeds has recreated every requested message on the
\* server.
C14_MessagesRecreated ==
    (rpc = "done" /\ rresult = "ok") => recreated = 1..ids

\* C15: when exactly one document is committed, a search for a word of its
\* body returns exactly one result; and a search for a word that no committed
\* document has returns Ok with an empty list.
C15_SearchRoundTrip ==
    /\ (sresult = "ok" /\ Len(index) = 1 /\ squery \in index[1].body)
            => Len(docs) = 1
    /\ (sresult # "" /\ squery \in Terms \cup {"goodbye"}
            /\ \A a \in 1..Len(index) : squery \notin index[a].subject \cup index[a].body)
            => (sresult = "ok" /\ docs = <<>>)

\* C15 witness: one committed document, found by a word that is in its body
\* and not in its subject.
C15_Witness ==
    /\ sresult = "ok"
    /\ Len(index) = 1
    /\ squery \in index[1].body \ index[1].subject
    /\ Len(docs) = 1

\* C16: every search result carries the id and the blob id of the document
\* it was built from.
C16_ResultIdentifiers ==
    sresult = "ok" =>
        \A k \in 1..Len(docs) :
            /\ docs[k].id = index[top_docs[k]].id
            /\ docs[k].blob_id = index[top_docs[k]].blob_id

\* The directory of a path: the path up to its last "/".
Dir(path) ==
    SubSeq(path, 1, CHOOSE k \in 1..Len(path) :
                        /\ path[k] = "/"
                        /\ \A j \in (k + 1)..Len(path) : path[j] # "/")

\* Length of the shard prefix of a kind of entity.
PrefixLen(kind) == CASE kind = "mailbox" -> 0 [] kind = "email" -> 3 [] kind = "blob" -> 2

Derived(path) == path # <<>> /\ path # Panic

\* C17: two distinct identifiers of one kind never get the same path, and
\* their paths lie in the same directory exactly when their shard prefixes
\* (none for a mailbox, 3 characters for a message, 2 for a payload) are
\* equal.
C17_PathsInjectiveAndSharded ==
    (Derived(pathA) /\ Derived(pathB)) =>
        /\ idA # idB => pathA # pathB
        /\ Dir(pathA) = Dir(pathB)
              <=> Slice(idA, PrefixLen(site[2])) = Slice(idB, PrefixLen(site[2]))

\* C17 witness: two distinct message identifiers with the same first three
\* characters, both with a path.
C17_Witness ==
    /\ site = <<"sync", "email">>
    /\ Derived(pathA) /\ Derived(pathB)
    /\ idA # idB
    /\ Slice(idA, 3) = Slice(idB, 3)
    /\ Len(idB) > Len(idA)

\* C18: deriving a path never panics, whatever the length of the identifier.
C18_PathNeverPanics ==
    pathA # Panic /\ pathB # Panic

\* C19: with indexing enabled, when index_emails has run for a page (its
\* commit done or failed), every message of the page has had a document added
\* to the index, also a message whose payload download or write failed.
C19_EveryMessageIndexed ==
    (indexing /\ (pc = "progress"
                  \/ (pc = "done" /\ result = "Error committing indexer")))
        => Range(page) \subseteq added

\* C20: message sync does not depend on indexing.  A successful index step
\* changes nothing of the sync (storage, checkpoint, cursor, position, page,
\* total); and with indexing enabled or disabled alike, a page fetch asks for
\* fetch_email(date, pos, maxObjects), the metadata writes are those of the
\* page, and the checkpoint write stores the receipt time of the last message
\* of the page and advances the position by the length of the page.
C20_IndexingInvisible ==
    [][/\ (pc = "index" /\ pc' = "progress")
            => UNCHANGED <<stored, ckpt, committed, date, total, pos, page,
                           failed, wrote, lastWrite, result>>
       /\ (pc = "fetch" /\ pc' = "emails")
            => page' = fetch_email(date, pos, maxObjects)
       /\ (pc = "emails" /\ pc' = "blobs")
            => /\ stored \subseteq stored'
               /\ stored' \subseteq stored \cup Range(page)
       /\ (pc = "progress" /\ pc' = "fetch")
            => /\ ckpt' = <<unwrap_or_default(last_received(page))>>
               /\ pos' = pos + Len(page)
               /\ pos' < total
       /\ (pc = "progress" /\ pc' = "done" /\ result' = "ok")
            => /\ ckpt' = <<unwrap_or_default(last_received(page))>>
               /\ pos' = pos + Len(page)
               /\ pos' >= total]_vars

\* A pass with indexing enabled has stored the messages of its pages, written
\* their checkpoints and completed.
C20_Witness ==
    /\ indexing
    /\ pc = "done"
    /\ result = "ok"
    /\ wrote # {}
    /\ lastWrite # <<>>

\* C21: when a metadata write failed in a pass that then returned Ok, the
\* next pass, run with every write succeeding and returning Ok, leaves the
\* item of the failed write in storage.
C21_FailedWriteRetried ==
    (pc = "done" /\ result = "ok" /\ failedNow = {})
        => failedBefore \subseteq stored

\* The offset stored in /progress/mailboxes.json, 0 when there is none.
StoredOffset == IF mckpt = <<>> THEN 0 ELSE mckpt[1].position

\* C25: the mailbox sync of the backup command keeps an offset checkpoint:
\* once a page has been processed the stored offset is the position reached,
\* and the first fetch of a pass starts at the stored offset.
C25_MailboxOffsetCheckpoint ==
    /\ mpos > 0 => (mckpt # <<>> /\ StoredOffset = mpos)
    /\ (mpc = "fetch" /\ mfetches = 0) => MailboxCursor(mpos) = StoredOffset

\* C22: the failure of an item of a page is not fatal.  The metadata step of
\* a page attempts every item of the page (each is stored or recorded as
\* failed), the payload step produces a result for every item, and both go on
\* to the next step of the pass with the result of the pass untouched, whatever
\* failed; the same for the mailboxes of a page of mailbox sync.
C22_ItemFailureNotFatal ==
    [][/\ (pc = "emails" /\ pc' # "idle")
            => /\ pc' = "blobs"
               /\ result' = result
               /\ Range(page) \ failedNow' \subseteq stored'
               /\ failedNow' \ failedNow \subseteq Range(page)
       /\ (pc = "blobs" /\ pc' # "idle")
            => /\ pc' \in {"index", "progress"}
               /\ result' = result
               /\ Len(blobs') = Len(page)
       /\ (mpc = "process" /\ mpc' # "idle")
            => /\ mpc' = IF mpos + Len(mpage) >= mtotal THEN "done" ELSE "fetch"
               /\ mresult' = IF mpc' = "done" THEN "ok" ELSE mresult
               /\ mpos' = mpos + Len(mpage)]_vars

\* A message sync pass has returned Ok although a metadata write of one of
\* its pages failed.
C22_Witness ==
    /\ pc = "done"
    /\ result = "ok"
    /\ failedNow # {}

\* C24: a page fetch is issued either as the first fetch of the pass, right
\* after the count query, or by the step that wrote the checkpoint of the
\* current page successfully: the stored checkpoint is then the receipt time
\* of the last message of that page.
C24_FetchAfterCheckpoint ==
    [][(pc # "fetch" /\ pc' = "fetch")
          => \/ pc = "total"
             \/ /\ pc = "progress"
                /\ ckpt' = <<unwrap_or_default(last_received(page))>>
                /\ committed' = ckpt'
                /\ lastWrite' = ckpt']_vars

\* The second page of a pass is about to be fetched.
C24_Witness ==
    /\ pc = "fetch"
    /\ page # <<>>
    /\ pos > 0
    /\ lastWrite # <<>>

\* C28: when the page fetched by a pass is empty the loop stops: the step
\* that ends the iteration of an empty page does not go on to another fetch
\* (message sync and mailbox sync).
C28_EmptyPageStops ==
    [][/\ (pc = "progress" /\ page = <<>>) => pc' # "fetch"
       /\ (mpc = "process" /\ mpage = <<>>) => mpc' # "fetch"]_vars

\* C29: a pass that starts from a stored watermark T uses T minus one second
\* as the cursor of the count query and of the first page fetch, at position
\* 0 (the epoch, not stepped back, when nothing is stored), and a resumed pass
\* that returns Ok has fetched, and so written, every message received at T.
C29_ResumeStepsBack ==
    /\ (pc \in {"total", "fetch"} /\ lastWrite = <<>>)
          => /\ date = IF ckpt = <<>> THEN UNIX_EPOCH ELSE ckpt[1] - 1
             /\ pos = 0
    /\ (pc = "done" /\ result = "ok" /\ failed = 0 /\ startCkpt # <<>>)
          => {i \in Ids : remote[i] = startCkpt[1]} \subseteq wrote

\* C26: in the checkpointed mailbox sync every stored checkpoint has
\* position equal to the number of distinct identifiers of items, and every
\* identifier of items has its metadata object in storage.
C26_CheckpointItemsWritten ==
    mckpt # <<>>
        => /\ mckpt[1].position = Cardinality(Range(mckpt[1].items))
           /\ Range(mckpt[1].items) \subseteq mstored

\* C27: against an unchanged remote and with a page size of at least 1, a
\* message sync pass and a mailbox sync pass that are running eventually stop,
\* and a pass that returns Ok has processed at least the total it counted.
C27_PassesTerminate ==
    /\ <>[](pc \in {"done", "idle", "off"} /\ mpc \in {"done", "idle", "off"})
    /\ []((pc = "done" /\ result = "ok") => pos >= total)
    /\ []((mpc = "done" /\ mresult = "ok") => mpos >= mtotal)

\* A message sync pass of several iterations, one of them with an empty page,
\* has returned Ok.
C27_Witness ==
    /\ pc = "done"
    /\ result = "ok"
    /\ pos > Len(page)
    /\ ckpt # <<>>
    /\ lastWrite # <<>>
    /\ total > maxObjects

\* C23: the checkpoint of a page is written only when every metadata-write
\* task and every payload task of the page has completed, with Ok or with an
\* error, in whatever order the tasks ran.
C23_CheckpointAfterTasks ==
    (tpc \in {"progress", "end"} \/ tckpt)
        => Completed(email_task) /\ Completed(blob_task)

\* The checkpoint of a full page has been written after a metadata write and
\* a payload task of the page failed.
C23_Witness ==
    /\ tckpt
    /\ tlen = MaxTasks
    /\ \E i \in Tasks : email_task[i] = "err"
    /\ \E i \in Tasks : blob_task[i] = "err"
    /\ \E i \in Tasks : blob_task[i] = "ok"

\* C30: with indexing enabled the index is committed once per page: after
\* the closure of every message of the page has run (a document added, or the
\* message passed over), and before the checkpoint of the page is written; a
\* failed commit ends the pass with the checkpoint of the page not written.
C30_CommitOncePerPage ==
    /\ commits <= 1
    /\ commits = 1 => \A i \in Tasks : doc_task[i] # "new"
    /\ (tpc \in {"progress", "end"} \/ tckpt)
          => commits = IF tindexing THEN 1 ELSE 0
    /\ tresult = "Error committing indexer" => (~tckpt /\ tpc = "abort")

\* The checkpoint of a full page has been written after the commit of its
\* documents.
C30_Witness ==
    /\ tindexing
    /\ tckpt
    /\ commits = 1
    /\ tlen = MaxTasks
    /\ \A i \in Tasks : doc_task[i] = "added"

\* C31: at every instant of a sync page at most 50 metadata writes and at
\* most 50 payload download/write tasks are in flight, and at every instant
\* of a restore at most 10 loads from storage are in flight.
C31_InFlightBounded ==
    /\ stream \in {"mailboxes", "emails", "blobs"} => in_flight <= 50
    /\ stream \in {"restore_emails", "restore_mailboxes"} => in_flight <= 10

\* A restore of more than 10 messages: 10 loads are in flight and the next
\* one waits.
C31_Witness ==
    /\ stream = "restore_emails"
    /\ in_flight = 10
    /\ queued > 0

\* C32: at no point of a sync pass are two writes to the same storage path in
\* flight at the same time, whatever the page holds (two emails of one page
\* may share a blob identifier).  The emails of a page have distinct ids, so
\* two metadata writes never share a path; two payload writes share one when
\* their blob identifiers are equal.
C32_NoConcurrentWritesToOnePath ==
    \A i, j \in Tasks :
        (i # j /\ blob_task[i] = "write" /\ blob_task[j] = "write")
            => blob_ids[i] # blob_ids[j]

\* C33: within one sync pass against an unchanging remote collection the
\* metadata write of each remote item is attempted exactly once: a page about
\* to be persisted holds no item whose write the same pass has already
\* attempted, in message sync and in mailbox sync.  (wrote and failedNow are
\* the attempts of the current message pass; in the first mailbox pass the
\* stored objects are those the pass has written.)
C33_WrittenOncePerPass ==
    /\ pc = "emails" => Range(page) \cap (wrote \cup failedNow) = {}
    /\ (mpc = "process" /\ mrun = 1) => Range(mpage) \cap mstored = {}

\* A metadata write and a payload task of the page are both in flight.
Overlap ==
    /\ \E i \in Tasks : email_task[i] = "write"
    /\ \E j \in Tasks : blob_task[j] \in {"download", "write"}

\* C34: within a page the metadata writes and the payload downloads run in
\* parallel with each other, so that a state with a metadata write and a
\* payload task both in flight is reached: while a metadata write is in
\* flight, a payload task that has not been started and is within the limit
\* of its stream can start.
C34_MetadataAndPayloadsInParallel ==
    ((\E i \in Tasks : email_task[i] = "write")
        /\ (\E j \in Tasks : blob_task[j] = "new")
        /\ InFlight(blob_task, {"download", "write"}) < BlobConcurrency)
    => ENABLED (\E j \in Tasks : StartBlobTask(j))

\* C35: a backup run (mailbox sync, message sync) never creates, updates or
\* deletes anything on the remote side, and a restore never writes or deletes
\* a storage object: of the two flows only restore changes the remote side.
C35_OnlyRestoreMutatesRemote ==
    [][/\ rpc = "off" => UNCHANGED <<remote, mremote, created, recreated>>
       /\ rpc # "off" => UNCHANGED <<stored, ckpt, mstored, mckpt>>]_vars

\* A restore has created mailboxes on the server.
C35_Witness ==
    /\ rpc = "done"
    /\ rresult = "ok"
    /\ created # <<>>

\* C36: in the indexing step the payload result paired with each message is
\* the output of the download of that message's own blob, for every order in
\* which the downloads complete and also when some of them fail: position k
\* of the collected payloads is the output of the task of email k.
C36_PayloadPairedWithOwnMessage ==
    tpc \in {"index", "progress", "end", "abort"}
        => tblobs = [k \in Tasks |-> k]

\* The first payload task of a page has failed, the second one has
\* succeeded, and the document of the second email has been added.
C36_Witness ==
    /\ tlen >= 2
    /\ blob_task[1] = "err"
    /\ blob_task[2] = "ok"
    /\ doc_task[1] = "skipped"
    /\ doc_task[2] = "added"

\* C37: a message sync pass whose first fetched page is empty (the total was
\* 0 when the pass started) does not move the stored watermark backwards: the
\* checkpoint stored after the pass is not earlier than the one stored when
\* it started.
C37_EmptyPassKeepsWatermark ==
    (pc = "done" /\ result = "ok" /\ total = 0
        /\ startCkpt # <<>> /\ ckpt # <<>>)
    => ckpt[1] >= startCkpt[1]

\* C38: after a successful restore in which a mailbox and its parent were
\* both recreated, the parent of the recreated child on the server is the
\* recreated parent: the parent reference sent in the create of the child is
\* the id of the newly created parent mailbox.
C38_ChildUnderRecreatedParent ==
    (rpc = "done" /\ rresult = "ok")
    => \A m \in Range(created) :
          parent[m] \in Range(created) => parent_id(m) = assigned[parent[m]]

\* C39: for every identifier long enough to be sharded, the storage path that
\* restore reads for a message or a mailbox, and that open reads for a
\* payload, is exactly the path sync writes for the same identifier.
C39_ReadPathIsWrittenPath ==
    (site[1] \in {"restore", "open"} /\ Derived(pathA))
        => pathA = Path(<<"sync", site[2]>>, idA)

\* Restore has derived the path of a message whose identifier is longer than
\* its shard prefix.
C39_Witness ==
    /\ site = <<"restore", "email">>
    /\ Len(idA) > 3
    /\ Derived(pathA)

====
